---- MODULE Spec2Model ----
(***************************************************************************)
(* MiColors colour generator: the palette state (base colour, harmony      *)
(* mode, per-slot locks), the render step that overlays the locks on the   *)
(* generated harmony, and the pure generators and conversions it uses.     *)
(*                                                                         *)
(* Colours are records [h, s, l] (HSL) or [r, g, b] (RGB).  A palette is a *)
(* sequence; slot i of the program (0-based) is element i + 1 here.        *)
(* Strings handed to the hex parser are sequences of one-character strings.*)
(***************************************************************************)
EXTENDS Integers, Sequences, FiniteSets, TLC

\* ------------------------------------------------------------------ bounds

\* Handler invocations explored from the initial render.
MaxOps == 3

\* Math.random() is modelled as k / RandDen for a numerator k < RandDen.
RandDen == 1000

\* ----------------------------------------------------------- JS arithmetic

Max(a, b) == IF a >= b THEN a ELSE b

Min(a, b) == IF a <= b THEN a ELSE b

\* The JS remainder a % n (n > 0): the sign of the dividend.
JsRem(a, n) == IF a >= 0 THEN a % n ELSE 0 - ((0 - a) % n)

\* Math.round(n / d) for n >= 0, d > 0 in exact arithmetic: ties go up.
MathRound(n, d) == (2 * n + d) \div (2 * d)

\* Math.round of a double that approximates n / d (n >= 0, d > 0): when
\* n / d is exactly halfway between two integers the double may lie on
\* either side of the tie, so both neighbours are possible results.
MathRoundFloat(n, d) ==
    IF (2 * n) % (2 * d) = d
    THEN {n \div d, (n \div d) + 1}
    ELSE {MathRound(n, d)}

\* Math.floor(Math.random() * range) for Math.random() = k / RandDen.
RandomInt(k, range) == (k * range) \div RandDen

\* --------------------------------------------------------- generateHarmony

normalizeHue(hue) == JsRem(JsRem(hue, 360) + 360, 360)

Hsl(hh, ss, ll) == [h |-> hh, s |-> ss, l |-> ll]

types == <<"monochromatic", "analogous", "complementary",
           "split-complementary", "triadic">>

Types == {types[i] : i \in 1..Len(types)}

monochromatic(baseHsl) ==
    LET h == baseHsl.h
        s == baseHsl.s
        l == baseHsl.l
    IN  << baseHsl,
           Hsl(h, s, Max(0, Min(100, l + 30))),
           Hsl(h, s, Max(0, Min(100, l - 30))),
           Hsl(h, Max(0, Min(100, s - 20)), Min(95, l + 40)),
           Hsl(h, Min(100, s + 20), Max(10, l - 30)) >>

analogous(baseHsl) ==
    LET h == baseHsl.h
        s == baseHsl.s
        l == baseHsl.l
    IN  << baseHsl,
           Hsl(normalizeHue(h + 30), s, l),
           Hsl(normalizeHue(h - 30), s, l),
           Hsl(normalizeHue(h + 60), s, l),
           Hsl(normalizeHue(h - 60), s, l) >>

\* Mutant of complementary: the lighter variant is capped at 100, not 90.
complementary_Cap100(baseHsl) ==
    LET h == baseHsl.h
        s == baseHsl.s
        l == baseHsl.l
    IN  << baseHsl,
           Hsl(normalizeHue(h + 180), s, l),
           Hsl(normalizeHue(h + 180), s, Min(100, l + 20)),
           Hsl(normalizeHue(h + 180), s, Max(10, l - 20)),
           Hsl(h, s, Max(10, l - 30)) >>

complementary(baseHsl) ==
    LET h == baseHsl.h
        s == baseHsl.s
        l == baseHsl.l
    IN  << baseHsl,
           Hsl(normalizeHue(h + 180), s, l),
           Hsl(normalizeHue(h + 180), s, Min(90, l + 20)),
           Hsl(normalizeHue(h + 180), s, Max(10, l - 20)),
           Hsl(h, s, Max(10, l - 30)) >>

splitComplementary(baseHsl) ==
    LET h == baseHsl.h
        s == baseHsl.s
        l == baseHsl.l
    IN  << baseHsl,
           Hsl(normalizeHue(h + 150), s, l),
           Hsl(normalizeHue(h + 210), s, l),
           Hsl(normalizeHue(h + 150), s, Max(10, l - 20)),
           Hsl(normalizeHue(h + 210), s, Max(10, l - 20)) >>

triadic(baseHsl) ==
    LET h == baseHsl.h
        s == baseHsl.s
        l == baseHsl.l
    IN  << baseHsl,
           Hsl(normalizeHue(h + 120), s, l),
           Hsl(normalizeHue(h + 240), s, l),
           Hsl(normalizeHue(h + 120), s, Max(10, l - 20)),
           Hsl(normalizeHue(h + 240), s, Max(10, l - 20)) >>

\* Mutant of generateHarmony: the default case pushes nothing.
generateHarmony_EmptyDefault(baseHsl, type) ==
    CASE type = "monochromatic" -> monochromatic(baseHsl)
      [] type = "analogous" -> analogous(baseHsl)
      [] type = "complementary" -> complementary(baseHsl)
      [] type = "split-complementary" -> splitComplementary(baseHsl)
      [] type = "triadic" -> triadic(baseHsl)
      [] OTHER -> << >>

\* The switch on type; each case is one of the operators above.
generateHarmony(baseHsl, type) ==
    CASE type = "monochromatic" -> monochromatic(baseHsl)
      [] type = "analogous" -> analogous(baseHsl)
      [] type = "complementary" -> complementary(baseHsl)
      [] type = "split-complementary" -> splitComplementary(baseHsl)
      [] type = "triadic" -> triadic(baseHsl)
      [] OTHER -> << baseHsl >>

\* ----------------------------------------------------------- generateScale

levels == <<50, 100, 200, 300, 400, 500, 600, 700, 800, 900>>

\* Mutant of ScaleStep: no case for level 500, which falls into the darker
\* branch (factor 0, saturation boosted).
ScaleStep_NoBaseCase(baseHsl, level) ==
    LET s == baseHsl.s
        l == baseHsl.l
        lDen == IF level < 500 THEN 5000 ELSE 4000
        lNum == IF level < 500
                THEN l * lDen + (100 - l) * (500 - level) * 9
                ELSE l * lDen - l * (level - 500) * 9
        newS == IF level >= 500 THEN Min(100, s + 5) ELSE s
    IN  [key |-> level, h |-> baseHsl.h,
         s |-> MathRound(newS, 1), l |-> MathRound(lNum, lDen)]

\* One step of the scale.  newL is a rational: its numerator over lDen.
ScaleStep(baseHsl, level) ==
    LET s == baseHsl.s
        l == baseHsl.l
        lDen == IF level < 500 THEN 5000 ELSE 4000
        lNum == IF level = 500 THEN l * lDen
                ELSE IF level < 500
                     THEN l * lDen + (100 - l) * (500 - level) * 9
                     ELSE l * lDen - l * (level - 500) * 9
        newS == IF level > 500 THEN Min(100, s + 5) ELSE s
    IN  [key |-> level, h |-> baseHsl.h,
         s |-> MathRound(newS, 1), l |-> MathRound(lNum, lDen)]

generateScale(baseHsl) ==
    [i \in 1..Len(levels) |-> ScaleStep(baseHsl, levels[i])]

\* ------------------------------------------------------------- conversions

Null == [null |-> TRUE]

Rgb(rr, gg, bb) == [r |-> rr, g |-> gg, b |-> bb]

HexDigits == <<"0", "1", "2", "3", "4", "5", "6", "7", "8", "9",
               "a", "b", "c", "d", "e", "f">>

UpperDigits == <<"0", "1", "2", "3", "4", "5", "6", "7", "8", "9",
                 "A", "B", "C", "D", "E", "F">>

IsHexDigit(c) ==
    \E i \in 1..Len(HexDigits) : c = HexDigits[i] \/ c = UpperDigits[i]

HexVal(c) ==
    (CHOOSE i \in 1..Len(HexDigits) : c = HexDigits[i] \/ c = UpperDigits[i]) - 1

\* hex.replace(/^#/, '')
StripHash(hex) ==
    IF Len(hex) > 0 /\ Head(hex) = "#" THEN Tail(hex) ELSE hex

\* hex.split('').map(char => char + char).join('')
ExpandShorthand(hex) == [i \in 1..(2 * Len(hex)) |-> hex[(i + 1) \div 2]]

\* parseInt(str, 16): an optional 0x prefix, then the longest prefix of hex
\* digits; -1 stands for NaN (no digit at all).  Signs and leading white
\* space, which parseInt also accepts, are outside the input alphabet.
RECURSIVE ParseDigits(_, _, _)
ParseDigits(str, acc, seen) ==
    IF Len(str) > 0 /\ IsHexDigit(Head(str))
    THEN ParseDigits(Tail(str), acc * 16 + HexVal(Head(str)), TRUE)
    ELSE IF seen THEN acc ELSE 0 - 1

parseInt16(str) ==
    IF Len(str) >= 2 /\ str[1] = "0" /\ (str[2] = "x" \/ str[2] = "X")
    THEN ParseDigits(Tail(Tail(str)), 0, FALSE)
    ELSE ParseDigits(str, 0, FALSE)

hexToRgb(hexIn) ==
    IF Len(hexIn) = 0 THEN Null
    ELSE LET stripped == StripHash(hexIn)
             hex == IF Len(stripped) = 3 THEN ExpandShorthand(stripped)
                    ELSE stripped
         IN  IF Len(hex) # 6 THEN Null
             ELSE LET parsed == parseInt16(hex)
                      \* NaN >> 16 and NaN & 255 are 0
                      bigint == IF parsed < 0 THEN 0 ELSE parsed
                  IN  Rgb((bigint \div 65536) % 256,
                          (bigint \div 256) % 256,
                          bigint % 256)

\* /^#?([0-9A-Fa-f]{3}){1,2}$/i
isValidHex(hexIn) ==
    LET body == StripHash(hexIn)
    IN  /\ Len(body) \in {3, 6}
        /\ \A i \in 1..Len(body) : IsHexDigit(body[i])

\* rgbToHsl in exact arithmetic over the 0..255 channels.  The three
\* roundings are Math.round of doubles, so each is a set of possible values
\* (a singleton except on an exact tie).
rgbToHslParts(r, g, b) ==
    LET max == Max(r, Max(g, b))
        min == Min(r, Min(g, b))
        d == max - min
        \* l = (max + min) / 2 on the unit scale; l > 0.5 iff max + min > 255
        sDen == IF max + min > 255 THEN 510 - max - min ELSE max + min
        \* h * 360 = hNum / d
        hNum == IF max = r THEN 60 * (g - b) + (IF g < b THEN 360 * d ELSE 0)
                ELSE IF max = g THEN 60 * (b - r) + 120 * d
                ELSE 60 * (r - g) + 240 * d
    IN  [h |-> IF max = min THEN {0} ELSE MathRoundFloat(hNum, d),
         s |-> IF max = min THEN {0} ELSE MathRoundFloat(100 * d, sDen),
         l |-> MathRoundFloat(100 * (max + min), 510)]

rgbToHsl(r, g, b) ==
    LET p == rgbToHslParts(r, g, b)
    IN  {Hsl(hh, ss, ll) : hh \in p.h, ss \in p.s, ll \in p.l}

hue2rgb_NoFalling(p, q, t) ==
    LET t1 == IF t < 0 THEN t + 360 ELSE t
        t2 == IF t1 > 360 THEN t1 - 360 ELSE t1
    IN  IF t2 < 60 THEN 60 * p + (q - p) * t2
        ELSE IF t2 < 180 THEN 60 * q
        ELSE 60 * p

\* hue2rgb of hslToRgb with t in degrees (t * 360) and p, q in units of
\* 1/10000; the value is in units of 1/600000.
hue2rgb(p, q, t) ==
    LET t1 == IF t < 0 THEN t + 360 ELSE t
        t2 == IF t1 > 360 THEN t1 - 360 ELSE t1
    IN  IF t2 < 60 THEN 60 * p + (q - p) * t2
        ELSE IF t2 < 180 THEN 60 * q
        ELSE IF t2 < 240 THEN 60 * p + (q - p) * (240 - t2)
        ELSE 60 * p

\* The set of results the double arithmetic can give: each Math.round is
\* MathRoundFloat, and an achromatic colour rounds one value for all channels.
hslToRgb(h, s, l) ==
    IF s = 0
    THEN {Rgb(c, c, c) : c \in MathRoundFloat(255 * l, 100)}
    ELSE LET q == IF l < 50 THEN l * (100 + s)
                  ELSE 100 * l + 100 * s - l * s
             p == 200 * l - q
         IN  {Rgb(rr, gg, bb) :
                 rr \in MathRoundFloat(255 * hue2rgb(p, q, h + 120), 600000),
                 gg \in MathRoundFloat(255 * hue2rgb(p, q, h), 600000),
                 bb \in MathRoundFloat(255 * hue2rgb(p, q, h - 120), 600000)}

\* ---------------------------------------------------------------- contrast

\* The channel linearisation of getLuminance, for v = c / 255 and c = 0..255:
\* v <= 0.03928 ? v / 12.92 : Math.pow((v + 0.055) / 1.055, 2.4), in units of
\* 1/10000 (entry c + 1 is the value for channel c).
LinearTable ==
   << 0, 3, 6, 9, 12, 15, 18, 21, 24, 27, 30, 33, 37, 40, 44, 48,
      52, 56, 60, 65, 70, 75, 80, 86, 91, 97, 103, 110, 116, 123, 130, 137,
      144, 152, 160, 168, 176, 185, 194, 203, 212, 222, 232, 242, 252, 262, 273, 284,
      296, 307, 319, 331, 343, 356, 369, 382, 395, 409, 423, 437, 452, 467, 482, 497,
      513, 529, 545, 561, 578, 595, 612, 630, 648, 666, 685, 704, 723, 742, 762, 782,
      802, 823, 844, 865, 887, 908, 931, 953, 976, 999, 1022, 1046, 1070, 1095, 1119, 1144,
      1170, 1195, 1221, 1248, 1274, 1301, 1329, 1356, 1384, 1413, 1441, 1470, 1500, 1529, 1559, 1590,
      1620, 1651, 1683, 1714, 1746, 1779, 1812, 1845, 1878, 1912, 1946, 1981, 2016, 2051, 2086, 2122,
      2159, 2195, 2232, 2270, 2307, 2346, 2384, 2423, 2462, 2502, 2542, 2582, 2623, 2664, 2705, 2747,
      2789, 2831, 2874, 2918, 2961, 3005, 3050, 3095, 3140, 3185, 3231, 3278, 3325, 3372, 3419, 3467,
      3515, 3564, 3613, 3663, 3712, 3763, 3813, 3864, 3916, 3968, 4020, 4072, 4125, 4179, 4233, 4287,
      4342, 4397, 4452, 4508, 4564, 4621, 4678, 4735, 4793, 4851, 4910, 4969, 5029, 5089, 5149, 5210,
      5271, 5333, 5395, 5457, 5520, 5583, 5647, 5711, 5776, 5841, 5906, 5972, 6038, 6105, 6172, 6240,
      6308, 6376, 6445, 6514, 6584, 6654, 6724, 6795, 6867, 6939, 7011, 7084, 7157, 7231, 7305, 7379,
      7454, 7529, 7605, 7682, 7758, 7835, 7913, 7991, 8070, 8148, 8228, 8308, 8388, 8469, 8550, 8632,
      8714, 8796, 8879, 8963, 9047, 9131, 9216, 9301, 9387, 9473, 9560, 9647, 9734, 9823, 9911, 10000 >>

Linearize(c) == LinearTable[c + 1]

\* a[0] * 0.2126 + a[1] * 0.7152 + a[2] * 0.0722, in units of 1/10000.
getLuminance(rgb) ==
    MathRound(2126 * Linearize(rgb.r) + 7152 * Linearize(rgb.g)
              + 722 * Linearize(rgb.b), 10000)

\* (brightest + 0.05) / (darkest + 0.05), as a fraction num / den.
getContrastRatio(rgb1, rgb2) ==
    LET lum1 == getLuminance(rgb1)
        lum2 == getLuminance(rgb2)
    IN  [num |-> Max(lum1, lum2) + 500, den |-> Min(lum1, lum2) + 500]

\* x > y for two fractions with positive denominators.
Greater(x, y) == x.num * y.den > y.num * x.den

\* Mutant of getAccessibleTextColor: the comparison is the other way round.
getAccessibleTextColor_Swapped(bgRgb) ==
    LET whiteContrast == getContrastRatio(bgRgb, Rgb(255, 255, 255))
        blackContrast == getContrastRatio(bgRgb, Rgb(0, 0, 0))
    IN  IF Greater(blackContrast, whiteContrast) THEN "#ffffff" ELSE "#000000"

getAccessibleTextColor(bgRgb) ==
    LET whiteContrast == getContrastRatio(bgRgb, Rgb(255, 255, 255))
        blackContrast == getContrastRatio(bgRgb, Rgb(0, 0, 0))
    IN  IF Greater(whiteContrast, blackContrast) THEN "#ffffff" ELSE "#000000"

\* ----------------------------------------------------------- palette state

VARIABLES
    baseColor,            \* state.baseColor
    harmonyType,          \* state.harmonyType
    activeRandomHarmony,  \* state.activeRandomHarmony
    lockedIndices,        \* state.lockedIndices
    lockedColors,         \* state.lockedColors: index -> frozen colour
    finalColors,          \* the palette on screen (what updateUI rendered last)
    lastOp,               \* the handler that ran last, with its argument
    ops,                  \* handler invocations so far
    fnPc,                 \* pure-function harness: "idle", "call" or "done"
    fnCall,               \* the call being made: function name and arguments
    fnRet                 \* its result

paletteVars == <<baseColor, harmonyType, activeRandomHarmony,
                 lockedIndices, lockedColors, finalColors, lastOp, ops>>

fnVars == <<fnPc, fnCall, fnRet>>

vars == <<paletteVars, fnVars>>

Slots == 0..4

\* The values the harmony <select> delivers.
HarmonyOptions == Types \cup {"random"}

\* Values of the colour picker (always "#rrggbb").
PickerInputs ==
    { <<"#", "3", "b", "8", "2", "f", "6">>,
      <<"#", "f", "f", "0", "0", "0", "1">> }

\* Values typed into the text field.
TextInputs ==
    { <<"0", "0", "0">>,
      <<"#", "F", "F", "0", "0", "0", "1">>,
      <<"#", "g", "g", "g", "g", "g", "g">>,
      <<"1", "2">> }

\* Numerators of the Math.random() values drawn for a rule: one in each
\* fifth of [0, 1), and the largest.
RuleDraws == {(i * RandDen) \div 5 : i \in 0..4} \cup {RandDen - 1}

\* Numerators of the Math.random() values drawn for h, s and l: the two
\* ends of [0, 1).
ColorDraws == {0, RandDen - 1}

\* Mutant of effectiveType: the mode itself is used as the rule.
effectiveType_NoProjection(hType, active) == hType

effectiveType(hType, active) == IF hType = "random" THEN active ELSE hType

\* Mutant of updateUI: the locked colours are not merged in.
updateUI_NoMerge(base, hType, active, locked, colors) ==
    generateHarmony(base, IF hType = "random" THEN active ELSE hType)

\* Steps 2 and 3 of updateUI: generate the harmony, then overlay the locks.
updateUI(base, hType, active, locked, colors) ==
    LET harmonyColors == generateHarmony(base, effectiveType(hType, active))
    IN  [i \in 1..Len(harmonyColors) |->
            IF (i - 1) \in locked THEN colors[i - 1] ELSE harmonyColors[i]]

\* updateUI() at the end of a handler: renders the new state.
Render ==
    finalColors' = updateUI(baseColor', harmonyType', activeRandomHarmony',
                            lockedIndices', lockedColors')

pickRandomHarmony(k) == types[RandomInt(k, Len(types)) + 1]

Tick(op) ==
    /\ ops < MaxOps
    /\ ops' = ops + 1
    /\ lastOp' = op

\* Mutant of setColor: a new base colour clears the locks.
setColor_ClearsLocks(hex) ==
    LET rgb == hexToRgb(hex)
    IN  IF rgb # Null
        THEN /\ baseColor' \in rgbToHsl(rgb.r, rgb.g, rgb.b)
             /\ lockedIndices' = {}
             /\ lockedColors' = << >>
             /\ UNCHANGED <<harmonyType, activeRandomHarmony>>
             /\ Render
        ELSE UNCHANGED <<baseColor, harmonyType, activeRandomHarmony,
                         lockedIndices, lockedColors, finalColors>>

setColor(hex) ==
    LET rgb == hexToRgb(hex)
    IN  IF rgb # Null
        THEN /\ baseColor' \in rgbToHsl(rgb.r, rgb.g, rgb.b)
             /\ UNCHANGED <<harmonyType, activeRandomHarmony,
                            lockedIndices, lockedColors>>
             /\ Render
        ELSE UNCHANGED <<baseColor, harmonyType, activeRandomHarmony,
                         lockedIndices, lockedColors, finalColors>>

handleColorPickerInput ==
    \E value \in PickerInputs :
        /\ Tick([op |-> "setColor", arg |-> value])
        /\ setColor(value)
        /\ UNCHANGED fnVars

handleTextInput ==
    \E val \in TextInputs :
        /\ IF isValidHex(val)
           THEN /\ Tick([op |-> "setColor", arg |-> val])
                /\ setColor(val)
           ELSE /\ Tick([op |-> "rejectText", arg |-> val])
                /\ UNCHANGED <<baseColor, harmonyType, activeRandomHarmony,
                               lockedIndices, lockedColors, finalColors>>
        /\ UNCHANGED fnVars

handleHarmonyChange ==
    \E value \in HarmonyOptions, k \in RuleDraws :
        /\ Tick([op |-> "handleHarmonyChange", arg |-> value])
        /\ harmonyType' = value
        /\ activeRandomHarmony' =
              IF value = "random" THEN pickRandomHarmony(k)
              ELSE activeRandomHarmony
        /\ UNCHANGED <<baseColor, lockedIndices, lockedColors>>
        /\ Render
        /\ UNCHANGED fnVars

\* Mutant of randomize: the lightness is offset like the saturation.
randomize_LightOffset ==
    \E k \in RuleDraws, kh \in ColorDraws, ks \in ColorDraws, kl \in ColorDraws :
        /\ Tick([op |-> "randomize", arg |-> 0 \in lockedIndices])
        /\ activeRandomHarmony' =
              IF harmonyType = "random" THEN pickRandomHarmony(k)
              ELSE activeRandomHarmony
        /\ baseColor' =
              IF 0 \notin lockedIndices
              THEN Hsl(RandomInt(kh, 360),
                       RandomInt(ks, 40) + 60,
                       RandomInt(kl, 40) + 60)
              ELSE baseColor
        /\ UNCHANGED <<harmonyType, lockedIndices, lockedColors>>
        /\ Render
        /\ UNCHANGED fnVars

randomize ==
    \E k \in RuleDraws, kh \in ColorDraws, ks \in ColorDraws, kl \in ColorDraws :
        /\ Tick([op |-> "randomize", arg |-> 0 \in lockedIndices])
        /\ activeRandomHarmony' =
              IF harmonyType = "random" THEN pickRandomHarmony(k)
              ELSE activeRandomHarmony
        /\ baseColor' =
              IF 0 \notin lockedIndices
              THEN Hsl(RandomInt(kh, 360),
                       RandomInt(ks, 40) + 60,
                       RandomInt(kl, 40) + 40)
              ELSE baseColor
        /\ UNCHANGED <<harmonyType, lockedIndices, lockedColors>>
        /\ Render
        /\ UNCHANGED fnVars

\* Mutant of toggleLock: unlocking keeps the frozen colour in lockedColors.
toggleLock_KeepColor(index, color) ==
    /\ IF index \in lockedIndices
       THEN /\ lockedIndices' = lockedIndices \ {index}
            /\ lockedColors' = lockedColors
       ELSE /\ lockedIndices' = lockedIndices \cup {index}
            /\ lockedColors' =
                  [i \in (DOMAIN lockedColors) \cup {index} |->
                      IF i = index THEN color ELSE lockedColors[i]]
    /\ UNCHANGED <<baseColor, harmonyType, activeRandomHarmony>>
    /\ Render

toggleLock(index, color) ==
    /\ IF index \in lockedIndices
       THEN /\ lockedIndices' = lockedIndices \ {index}
            /\ lockedColors' =
                  [i \in (DOMAIN lockedColors) \ {index} |-> lockedColors[i]]
       ELSE /\ lockedIndices' = lockedIndices \cup {index}
            /\ lockedColors' =
                  [i \in (DOMAIN lockedColors) \cup {index} |->
                      IF i = index THEN color ELSE lockedColors[i]]
    /\ UNCHANGED <<baseColor, harmonyType, activeRandomHarmony>>
    /\ Render

lockBtnClick_PassesBase ==
    \E index \in 0..(Len(finalColors) - 1) :
        /\ Tick([op |-> "toggleLock", arg |-> index])
        /\ toggleLock(index, baseColor)
        /\ UNCHANGED fnVars

\* The lock button of column index: its listener closes over the colour
\* rendered in that column.
lockBtnClick ==
    \E index \in 0..(Len(finalColors) - 1) :
        /\ Tick([op |-> "toggleLock", arg |-> index])
        /\ toggleLock(index, finalColors[index + 1])
        /\ UNCHANGED fnVars

\* The state literal, then init(): pickRandomHarmony() and updateUI().
Init ==
    /\ baseColor = Hsl(217, 91, 60)
    /\ harmonyType = "random"
    /\ \E k \in RuleDraws : activeRandomHarmony = pickRandomHarmony(k)
    /\ lockedIndices = {}
    /\ lockedColors = << >>
    /\ finalColors = updateUI(baseColor, harmonyType, activeRandomHarmony,
                              lockedIndices, lockedColors)
    /\ lastOp = [op |-> "init", arg |-> 0]
    /\ ops = 0
    /\ fnPc = "idle"
    /\ fnCall = [fn |-> "none"]
    /\ fnRet = << >>

Next ==
    \/ handleColorPickerInput
    \/ handleTextInput
    \/ handleHarmonyChange
    \/ randomize
    \/ lockBtnClick

Spec == Init /\ [][Next]_vars

\* ------------------------------------------------- the pure functions alone

HueInputs == {0, 29, 59, 150, 217, 330, 359, 360}

SatInputs == {0, 19, 20, 50, 80, 81, 91, 96, 100}

LightInputs == 0..100

HslInputs == {Hsl(hh, ss, ll) : hh \in HueInputs, ss \in SatInputs,
                                ll \in LightInputs}

\* Rule names handed to generateHarmony: the five rules and one other.
TypeInputs == Types \cup {"tetradic"}

\* Channel values of the backgrounds handed to getAccessibleTextColor; the
\* greys 117 and 118 lie on either side of the luminance at which white
\* and black text contrast equally.
ChannelInputs == {0, 59, 117, 118, 130, 187, 246, 255}

RgbInputs == {Rgb(rr, gg, bb) : rr \in ChannelInputs, gg \in ChannelInputs,
                                bb \in ChannelInputs}

\* Strings handed to hexToRgb and setColor: well-formed ones, strings of
\* another length, and strings of the right length with other characters.
HexStringInputs ==
    { <<"#", "3", "b", "8", "2", "f", "6">>,
      <<"3", "B", "8", "2", "F", "6">>,
      <<"f", "f", "f">>,
      <<"#", "0", "3", "F">>,
      << >>,
      <<"#">>,
      <<"1", "2">>,
      <<"1", "2", "3", "4">>,
      <<"#", "1", "2", "3", "4", "5">>,
      <<"1", "2", "3", "4", "5", "6", "7">>,
      <<"#", "g", "g", "g", "g", "g", "g">>,
      <<"1", "2", "3", "4", "5", "g">>,
      <<"z", "z", "0", "0", "0", "0">>,
      <<"#", "1", "2", "g">>,
      <<"0", "x", "1", "2", "3", "4">> }

\* Colours sent through hslToRgb and back through rgbToHsl: every lightness,
\* hues on and between the sector borders, saturations from grey to full.
RoundTripHues == {0, 1, 29, 59, 60, 119, 120, 150, 217, 240, 330, 359}

RoundTripSats ==
    {0, 1, 10, 19, 20, 30, 40, 50, 55, 56, 57, 60, 70, 80, 90, 91, 99, 100}

RoundTripInputs ==
    {Hsl(hh, ss, ll) : hh \in RoundTripHues, ss \in RoundTripSats,
                       ll \in 0..100}

FnCalls ==
    {[fn |-> "generateHarmony", baseHsl |-> b, type |-> ty] :
        b \in HslInputs, ty \in TypeInputs}
    \cup {[fn |-> "generateScale", baseHsl |-> b] : b \in HslInputs}
    \cup {[fn |-> "getAccessibleTextColor", bgRgb |-> c] : c \in RgbInputs}
    \cup {[fn |-> "roundTrip", hsl |-> c] : c \in RoundTripInputs}
    \cup {[fn |-> "hexToRgb", hex |-> str] : str \in HexStringInputs}
    \cup {[fn |-> "setColor", hex |-> str] : str \in HexStringInputs}

callGenerateHarmony ==
    /\ fnPc = "call"
    /\ fnCall.fn = "generateHarmony"
    /\ fnRet' = generateHarmony(fnCall.baseHsl, fnCall.type)
    /\ fnPc' = "done"
    /\ UNCHANGED <<fnCall, paletteVars>>

callGenerateScale ==
    /\ fnPc = "call"
    /\ fnCall.fn = "generateScale"
    /\ fnRet' = generateScale(fnCall.baseHsl)
    /\ fnPc' = "done"
    /\ UNCHANGED <<fnCall, paletteVars>>

callGetAccessibleTextColor ==
    /\ fnPc = "call"
    /\ fnCall.fn = "getAccessibleTextColor"
    /\ fnRet' = getAccessibleTextColor(fnCall.bgRgb)
    /\ fnPc' = "done"
    /\ UNCHANGED <<fnCall, paletteVars>>

callHslToRgb ==
    /\ fnPc = "call"
    /\ fnCall.fn = "roundTrip"
    /\ fnRet' \in hslToRgb(fnCall.hsl.h, fnCall.hsl.s, fnCall.hsl.l)
    /\ fnPc' = "rgb"
    /\ UNCHANGED <<fnCall, paletteVars>>

callRgbToHsl ==
    /\ fnPc = "rgb"
    /\ fnCall.fn = "roundTrip"
    /\ fnRet' \in rgbToHsl(fnRet.r, fnRet.g, fnRet.b)
    /\ fnPc' = "done"
    /\ UNCHANGED <<fnCall, paletteVars>>

callHexToRgb ==
    /\ fnPc = "call"
    /\ fnCall.fn = "hexToRgb"
    /\ fnRet' = hexToRgb(fnCall.hex)
    /\ fnPc' = "done"
    /\ UNCHANGED <<fnCall, paletteVars>>

\* setColor called with the string as it is (handleTextInput calls it only
\* after isValidHex).
callSetColor ==
    /\ fnPc = "call"
    /\ fnCall.fn = "setColor"
    /\ setColor(fnCall.hex)
    /\ fnPc' = "done"
    /\ UNCHANGED <<fnCall, fnRet, lastOp, ops>>

\* The palette state is the state literal, before init() has run.
FnInit ==
    /\ baseColor = Hsl(217, 91, 60)
    /\ harmonyType = "random"
    /\ activeRandomHarmony = "analogous"
    /\ lockedIndices = {}
    /\ lockedColors = << >>
    /\ finalColors = << >>
    /\ lastOp = [op |-> "none", arg |-> 0]
    /\ ops = 0
    /\ fnPc = "call"
    /\ fnCall \in FnCalls
    /\ fnRet = << >>

FnNext ==
    \/ callGenerateHarmony
    \/ callGenerateScale
    \/ callGetAccessibleTextColor
    \/ callHslToRgb
    \/ callRgbToHsl
    \/ callHexToRgb
    \/ callSetColor

FnSpec == FnInit /\ [][FnNext]_vars

\* ------------------------------------------------------------------ claims

\* A handler ran in this step, and it was op.
Ran(op) == ops' # ops /\ lastOp'.op = op

\* The five rules, as the specification lists them.
FiveRules == {"monochromatic", "analogous", "complementary",
              "split-complementary", "triadic"}

\* C1: lock persistence.  From the step that locks slot i with the colour
\* shown there (the colour the lock button passes), and over every later
\* step that leaves slot i locked, whichever handler runs, slot i of the
\* rendered palette keeps that colour.
C1_LockPersistence ==
    [][\A i \in Slots :
          i \in lockedIndices' =>
              /\ i + 1 <= Len(finalColors')
              /\ finalColors'[i + 1] = finalColors[i + 1]]_vars

\* Slot 2 is locked, randomize() has just run in random mode with slot 0
\* unlocked, and the regenerated candidate for slot 2 is another colour.
C1_Witness ==
    /\ lastOp.op = "randomize"
    /\ harmonyType = "random"
    /\ lockedIndices = {2}
    /\ finalColors[3] = lockedColors[2]
    /\ generateHarmony(baseColor, activeRandomHarmony)[3] # finalColors[3]

\* C2: slot 0 of the rendered palette is the current base colour, in every
\* reachable state.
C2_Slot0IsBase == finalColors[1] = baseColor

InRange(c) == c.h \in 0..359 /\ c.s \in 0..100 /\ c.l \in 0..100

\* C3: the base colour and every slot of the rendered palette have
\* h in [0,360), s in [0,100] and l in [0,100].
C3_AllInRange ==
    /\ InRange(baseColor)
    /\ \A i \in 1..Len(finalColors) : InRange(finalColors[i])

\* C4: harmony invariant.  For each of the five rules generateHarmony returns
\* five colours, the first being the base unchanged; for any other rule name
\* it returns the base alone.
C4_HarmonyShape ==
    (fnPc = "done" /\ fnCall.fn = "generateHarmony") =>
        IF fnCall.type \in FiveRules
        THEN Len(fnRet) = 5 /\ fnRet[1] = fnCall.baseHsl
        ELSE fnRet = << fnCall.baseHsl >>

\* A five-colour harmony of a base whose hue is at the top of the range.
C4_Witness ==
    /\ fnPc = "done"
    /\ fnCall.fn = "generateHarmony"
    /\ fnCall.type = "complementary"
    /\ fnCall.baseHsl = Hsl(359, 100, 100)
    /\ Len(fnRet) = 5

\* The specification's per-rule table: for slots 1..4 the hue offset, the
\* saturation delta, the lightness delta and the range the lightness is
\* clamped to.
Entry(dh, ds, dl, lo, hi) == [dh |-> dh, ds |-> ds, dl |-> dl, lo |-> lo, hi |-> hi]

HarmonyTable(rule) ==
    CASE rule = "monochromatic" ->
           << Entry(0, 0, 30, 0, 100), Entry(0, 0, 0 - 30, 0, 100),
              Entry(0, 0 - 20, 40, 0, 95), Entry(0, 20, 0 - 30, 10, 100) >>
      [] rule = "analogous" ->
           << Entry(30, 0, 0, 0, 100), Entry(0 - 30, 0, 0, 0, 100),
              Entry(60, 0, 0, 0, 100), Entry(0 - 60, 0, 0, 0, 100) >>
      [] rule = "complementary" ->
           << Entry(180, 0, 0, 0, 100), Entry(180, 0, 20, 0, 90),
              Entry(180, 0, 0 - 20, 10, 100), Entry(0, 0, 0 - 30, 10, 100) >>
      [] rule = "split-complementary" ->
           << Entry(150, 0, 0, 0, 100), Entry(210, 0, 0, 0, 100),
              Entry(150, 0, 0 - 20, 10, 100), Entry(210, 0, 0 - 20, 10, 100) >>
      [] rule = "triadic" ->
           << Entry(120, 0, 0, 0, 100), Entry(240, 0, 0, 0, 100),
              Entry(120, 0, 0 - 20, 10, 100), Entry(240, 0, 0 - 20, 10, 100) >>

Clamp(x, lo, hi) == IF x < lo THEN lo ELSE IF x > hi THEN hi ELSE x

TableColor(base, e) ==
    Hsl((base.h + e.dh + 360) % 360,
        Clamp(base.s + e.ds, 0, 100),
        Clamp(base.l + e.dl, e.lo, e.hi))

\* C5: for a base with h in [0,360) and s, l in [0,100], slots 1..4 of
\* generateHarmony(base, rule) are the colours of the per-rule table; and
\* {217,91,60} under complementary gives the five colours of the example.
C5_HarmonyTable ==
    (/\ fnPc = "done"
     /\ fnCall.fn = "generateHarmony"
     /\ fnCall.type \in FiveRules
     /\ fnCall.baseHsl.h < 360) =>
        /\ \A k \in 1..4 :
              fnRet[k + 1] = TableColor(fnCall.baseHsl, HarmonyTable(fnCall.type)[k])
        /\ (fnCall.baseHsl = Hsl(217, 91, 60) /\ fnCall.type = "complementary") =>
              fnRet = << Hsl(217, 91, 60), Hsl(37, 91, 60), Hsl(37, 91, 80),
                         Hsl(37, 91, 40), Hsl(217, 91, 30) >>

\* The example of the claim has been generated.
C5_Witness ==
    /\ fnPc = "done"
    /\ fnCall.fn = "generateHarmony"
    /\ fnCall.type = "complementary"
    /\ fnCall.baseHsl = Hsl(217, 91, 60)
    /\ fnRet[3] = Hsl(37, 91, 80)

\* C6: randomize() with slot 0 unlocked samples a base with h in [0,360),
\* s in [60,100) and l in [40,80); with slot 0 locked it keeps the base; in
\* both cases the locked slots and their frozen colours are unchanged.
C6_Randomize ==
    [][Ran("randomize") =>
          /\ IF 0 \notin lockedIndices
             THEN /\ baseColor'.h \in 0..359
                  /\ baseColor'.s \in 60..99
                  /\ baseColor'.l \in 40..79
             ELSE baseColor' = baseColor
          /\ lockedIndices' = lockedIndices
          /\ lockedColors' = lockedColors]_vars

\* randomize() has sampled the top of every range while slot 3 was locked.
C6_Witness ==
    /\ lastOp.op = "randomize"
    /\ lastOp.arg = FALSE
    /\ lockedIndices = {3}
    /\ baseColor = Hsl(359, 99, 79)

\* C7: setBaseColor replaces the base colour by the conversion of its
\* argument and leaves the locks, the harmony mode and the effective rule
\* unchanged.
C7_SetBaseColorFrame ==
    [][Ran("setColor") =>
          /\ LET rgb == hexToRgb(lastOp'.arg)
             IN  baseColor' \in rgbToHsl(rgb.r, rgb.g, rgb.b)
          /\ lockedIndices' = lockedIndices
          /\ lockedColors' = lockedColors
          /\ harmonyType' = harmonyType
          /\ activeRandomHarmony' = activeRandomHarmony]_vars

\* A base colour has been set while a slot was locked and a concrete rule
\* was selected.
C7_Witness ==
    /\ lastOp = [op |-> "setColor", arg |-> <<"0", "0", "0">>]
    /\ baseColor = Hsl(0, 0, 0)
    /\ lockedIndices # {}
    /\ harmonyType # "random"

\* The unlocked slots show generateHarmony(baseColor, rule).
RenderedWith(rule) ==
    LET harmony == generateHarmony(baseColor, rule)
    IN  /\ Len(finalColors) = Len(harmony)
        /\ \A i \in 1..Len(harmony) :
              (i - 1) \notin lockedIndices => finalColors[i] = harmony[i]

\* C8: after setHarmonyMode(m) the render step uses m when m is a concrete
\* rule and one of the five rules when m is random; in every reachable state
\* the palette is rendered with one of the five rules and has length 5.
C8_EffectiveRule ==
    /\ Len(finalColors) = 5
    /\ \E rule \in FiveRules : RenderedWith(rule)
    /\ lastOp.op = "handleHarmonyChange" =>
          /\ harmonyType = lastOp.arg
          /\ lastOp.arg \in FiveRules => RenderedWith(lastOp.arg)

\* A concrete rule was selected while another rule was the last random pick.
C8_Witness ==
    /\ lastOp = [op |-> "handleHarmonyChange", arg |-> "triadic"]
    /\ activeRandomHarmony = "monochromatic"
    /\ finalColors[2].h = normalizeHue(baseColor.h + 120)

\* C9: toggleLock(slot, c) unlocks a locked slot and removes its frozen
\* colour, or locks an unlocked slot with frozen colour c (the colour shown
\* in the slot, which the button passes); no other slot's lock or frozen
\* colour changes, nor the base colour, nor the harmony mode.
C9_ToggleLock ==
    [][Ran("toggleLock") =>
          LET slot == lastOp'.arg
          IN  /\ IF slot \in lockedIndices
                 THEN /\ slot \notin lockedIndices'
                      /\ slot \notin DOMAIN lockedColors'
                 ELSE /\ slot \in lockedIndices'
                      /\ slot \in DOMAIN lockedColors'
                      /\ lockedColors'[slot] = finalColors[slot + 1]
              /\ \A j \in Slots \ {slot} :
                    /\ j \in lockedIndices' <=> j \in lockedIndices
                    /\ j \in DOMAIN lockedColors' <=> j \in DOMAIN lockedColors
                    /\ j \in DOMAIN lockedColors =>
                          lockedColors'[j] = lockedColors[j]
              /\ baseColor' = baseColor
              /\ harmonyType' = harmonyType]_vars

\* A slot has just been unlocked while another slot stays locked.
C9_Witness ==
    /\ lastOp.op = "toggleLock"
    /\ lastOp.arg \notin lockedIndices
    /\ lockedIndices # {}

\* C10: scale invariant.  The step with key 500 has the base's h, s and l;
\* and for a base lightness strictly between 10 and 90 every step with a
\* key below 500 is strictly lighter than the base and every step with a key
\* above 500 strictly darker.
C10_Scale ==
    (fnPc = "done" /\ fnCall.fn = "generateScale") =>
        LET base == fnCall.baseHsl
        IN  /\ Len(fnRet) = 10
            /\ \A i \in 1..Len(fnRet) :
                  /\ fnRet[i].key = 500 =>
                        /\ fnRet[i].h = base.h
                        /\ fnRet[i].s = base.s
                        /\ fnRet[i].l = base.l
                  /\ (base.l > 10 /\ base.l < 90) =>
                        /\ fnRet[i].key < 500 => fnRet[i].l > base.l
                        /\ fnRet[i].key > 500 => fnRet[i].l < base.l
            /\ \E i \in 1..Len(fnRet) : fnRet[i].key = 500

\* A scale of a base at the upper edge of the lightness range of the claim:
\* key 400 is lighter by rounding 1.98 up.
C10_Witness ==
    /\ fnPc = "done"
    /\ fnCall.fn = "generateScale"
    /\ fnCall.baseHsl.l = 89
    /\ fnRet[5].key = 400
    /\ fnRet[5].l = 91

WellFormedHex(str) ==
    LET digits == IF Len(str) > 0 /\ str[1] = "#"
                  THEN [i \in 1..(Len(str) - 1) |-> str[i + 1]]
                  ELSE str
    IN  /\ Len(digits) = 3 \/ Len(digits) = 6
        /\ \A i \in 1..Len(digits) :
              \E j \in 1..Len(HexDigits) :
                  digits[i] = HexDigits[j] \/ digits[i] = UpperDigits[j]

\* C12: for every string that is not well-formed hex, hexToRgb returns null,
\* and setBaseColor leaves the base colour, the locks and the harmony mode
\* as they were.
C12_MalformedHex ==
    (fnPc = "done" /\ fnCall.fn \in {"hexToRgb", "setColor"}
                   /\ ~WellFormedHex(fnCall.hex)) =>
        /\ fnCall.fn = "hexToRgb" => fnRet = Null
        /\ fnCall.fn = "setColor" =>
              /\ baseColor = Hsl(217, 91, 60)
              /\ lockedIndices = {}
              /\ lockedColors = << >>
              /\ harmonyType = "random"

\* Distance of two hues on the colour wheel.
HueDist(a, b) == Min((a - b) % 360, (b - a) % 360)

Near(a, b) == a - b <= 1 /\ b - a <= 1

RoundTripDone == fnPc = "done" /\ fnCall.fn = "roundTrip"

\* C13 as stated: for every h in [0,360) and s, l in [0,100], the round trip
\* rgbToHsl(hslToRgb(h, s, l)) recovers each of h, s and l within 1, the
\* cases s = 0, l = 0 and l = 100 included.
C13_RoundTripAll ==
    RoundTripDone =>
        /\ HueDist(fnRet.h, fnCall.hsl.h) <= 1
        /\ Near(fnRet.s, fnCall.hsl.s)
        /\ Near(fnRet.l, fnCall.hsl.l)

\* C13, amended: the round trip recovers l for every input; it recovers s
\* within 1 when 12 <= l <= 88; it recovers h within 1 on the colour wheel
\* when s >= 56 and 12 <= l <= 88; and for s = 0, l = 0 or l = 100 it returns
\* h = 0 and s = 0, whatever h and s were.
C13_RoundTrip ==
    RoundTripDone =>
        LET in == fnCall.hsl
        IN  /\ fnRet.l = in.l
            /\ (12 <= in.l /\ in.l <= 88) => Near(fnRet.s, in.s)
            /\ (in.s >= 56 /\ 12 <= in.l /\ in.l <= 88) =>
                  HueDist(fnRet.h, in.h) <= 1
            /\ (in.s = 0 \/ in.l = 0 \/ in.l = 100) =>
                  fnRet.h = 0 /\ fnRet.s = 0

\* A dark colour on the border of both ranges comes back one step off in hue
\* and in saturation.
C13_Witness ==
    /\ RoundTripDone
    /\ fnCall.hsl = Hsl(1, 56, 12)
    /\ fnRet = Hsl(2, 57, 12)

\* C14: locking an unlocked slot with the colour rendered in it leaves the
\* rendered palette as it was; and in every reachable state the set of locked
\* indices is the key set of the frozen-colour map and lies within 0..4.
C14_LockKeys ==
    /\ [](lockedIndices = DOMAIN lockedColors /\ lockedIndices \subseteq Slots)
    /\ [][(Ran("toggleLock") /\ lastOp'.arg \notin lockedIndices) =>
              finalColors' = finalColors]_vars

\* A second slot has just been locked.
C14_Witness ==
    /\ lastOp.op = "toggleLock"
    /\ lastOp.arg \in lockedIndices
    /\ Cardinality(lockedIndices) = 2

====
